---- MODULE Spec2Model ----
(***************************************************************************)
(* The auto-updating supervisor (Vaultvisor / Runner): the run loop that   *)
(* reads the Current client release from the chain, installs the binary,   *)
(* spawns it as a child process and replaces it when the release uri       *)
(* changes.  The child processes, the two directories the program touches  *)
(* (the download directory and the working directory), the chain storage   *)
(* slot, the RPC and HTTP outcomes and the shutdown signal are the         *)
(* environment.                                                            *)
(***************************************************************************)
EXTENDS Integers, Sequences, FiniteSets, TLC

VARIABLES
    download_path,       \* Vaultvisor.download_path: "." (the working directory) or "dl"
    chain,               \* bytes stored at VaultRegistry::CurrentClientRelease, or None
    files,               \* the two directories: path -> None or [content, mode]
    procs,               \* process table: pid -> [st, exe, termed]
    child_proc,          \* Vaultvisor.child_proc: None or the pid of the Child handle
    downloaded_release,  \* Vaultvisor.downloaded_release: None or a DownloadedRelease
    pc,                  \* position of the task inside run / Runner::run
    booting,             \* TRUE until the bootstrap part of run (lines 84-88) is done
    pending,             \* the local `release` / `new_release` of run: what the last read returned
    ctx,                 \* "run": inside run; "signal"/"error": Runner::run cleaning up; "exit"
    sig,                 \* the shutdown signal: "none", "fresh" (delivered), "due", "handled"
    ret,                 \* what run returned: "none" while running, else the error
    exit_code,           \* None until the process has exited
    hist,                \* the last operations the run loop completed, oldest first
    rpc,                 \* what the last state_getStorage request produced
    log                  \* the last line terminate_proc_and_wait / Runner::run logged

vars == <<download_path, chain, files, procs, child_proc, downloaded_release, pc,
          booting, pending, ctx, sig, ret, exit_code, hist, rpc, log>>

\* Option<T>: None is the empty sequence, Some(x) the one-element sequence
None == <<>>
Some(x) == <<x>>
IsSome(o) == o # <<>>
Unwrap(o) == o[1]

\* Result<T, E>: [ok |-> v] or [err |-> e]
Ok(v) == [ok |-> v]
Err(e) == [err |-> e]
IsOk(r) == "ok" \in DOMAIN r

(***************************************************************************)
(* Bounds of the model.                                                    *)
(***************************************************************************)
MaxPid == 2        \* pids the operating system hands out: 1..MaxPid
Window == 5        \* how many completed operations hist remembers

Pids == 1..MaxPid

(***************************************************************************)
(* Strings.  A uri is a sequence of tokens: "H" stands for the scheme and  *)
(* authority "http://fake", the others are single characters.              *)
(***************************************************************************)
HashLen == 32      \* H256

UriA      == <<"H", "/", "a">>          \* http://fake/a
UriB      == <<"H", "/", "b">>          \* http://fake/b
UriASlash == <<"H", "/", "a", "/">>     \* http://fake/a/
UriNoName == <<"H", "/">>               \* http://fake/
UriNoBase == <<"a">>                    \* a          (no scheme)

Hash(n) == [i \in 1..HashLen |-> n]

\* struct ClientRelease
ClientRelease(uri, code_hash) == [uri |-> uri, code_hash |-> code_hash]

Releases ==
    { ClientRelease(UriA, Hash(0)), ClientRelease(UriA, Hash(1)),
      ClientRelease(UriB, Hash(0)), ClientRelease(UriASlash, Hash(0)),
      ClientRelease(UriNoName, Hash(0)), ClientRelease(UriNoBase, Hash(0)) }

\* UTF-8 bytes of the tokens; any other byte (255 below) is not valid UTF-8
CharByte(c) == CASE c = "H" -> 1 [] c = "/" -> 2 [] c = "a" -> 3 [] c = "b" -> 4
ByteChar(b) == CASE b = 1 -> "H" [] b = 2 -> "/" [] b = 3 -> "a" [] b = 4 -> "b"
ValidBytes == {1, 2, 3, 4}

(***************************************************************************)
(* SCALE codec of ClientRelease (derive(Encode, Decode)): the uri as a     *)
(* compact length followed by its bytes, then the 32 bytes of the hash.    *)
(* Values below 64 take the single-byte compact mode (n << 2); the other   *)
(* modes announce at least 64 items, more than any input here holds.       *)
(***************************************************************************)
Encode(r) ==
    <<4 * Len(r.uri)>> \o [i \in 1..Len(r.uri) |-> CharByte(r.uri[i])] \o r.code_hash

DecodeError == Err("DecodeError")

Decode(v) ==
    IF Len(v) = 0 THEN DecodeError
    ELSE IF v[1] % 4 # 0 THEN DecodeError
    ELSE LET n == v[1] \div 4 IN
         IF Len(v) < 1 + n THEN DecodeError
         ELSE IF \E i \in 2..(1 + n) : v[i] \notin ValidBytes THEN DecodeError
         ELSE IF Len(v) < 1 + n + HashLen THEN DecodeError
         ELSE Ok(ClientRelease([i \in 1..n |-> ByteChar(v[i + 1])],
                                SubSeq(v, n + 2, n + 1 + HashLen)))

\* what the chain may hold at the key
Truncated == SubSeq(Encode(ClientRelease(UriB, Hash(0))), 1, HashLen)
BadUtf8   == <<4, 255>> \o Hash(0)
ChainValues == {None} \cup {Some(Encode(r)) : r \in Releases}
                      \cup {Some(Truncated), Some(BadUtf8)}

(***************************************************************************)
(* Chain reads (VaultvisorUtils::query_storage, read_chain_storage,        *)
(* try_get_release).  A response is what the websocket request produced:   *)
(* the value the chain holds at the key (null when it holds none), or a    *)
(* transport / protocol failure.                                           *)
(***************************************************************************)
RpcValue(v) == [kind |-> "value", v |-> v]
RpcFailure  == [kind |-> "failure", v |-> None]
Responses(c) == {RpcValue(c), RpcFailure}

\* parachain_rpc.request::<Bytes>(..): a failure and a null result are both Err
Request(resp) ==
    IF resp.kind = "value" /\ IsSome(resp.v) THEN Ok(Unwrap(resp.v)) ELSE Err("RpcError")

\* .ok()
QueryStorage(resp) ==
    IF IsOk(Request(resp)) THEN Some(Request(resp).ok) ELSE None

\* a variant in which a failed request is an error of the read
ReadChainStorage_FailureIsError(resp) ==
    IF resp.kind = "failure" THEN Err("RpcError")
    ELSE IF IsSome(resp.v)
    THEN LET d == Decode(Unwrap(resp.v)) IN IF IsOk(d) THEN Ok(Some(d.ok)) ELSE d
    ELSE Ok(None)

\* a variant in which bytes that do not decode read as no value
ReadChainStorage_DecodeErrorIsNone(resp) ==
    LET enc_res == QueryStorage(resp) IN
    IF IsSome(enc_res)
    THEN LET d == Decode(Unwrap(enc_res)) IN IF IsOk(d) THEN Ok(Some(d.ok)) ELSE Ok(None)
    ELSE Ok(None)

\* enc_res.map(decode).transpose().map_err(Into::into)
ReadChainStorage(resp) ==
    LET enc_res == QueryStorage(resp) IN
    IF IsSome(enc_res)
    THEN LET d == Decode(Unwrap(enc_res)) IN IF IsOk(d) THEN Ok(Some(d.ok)) ELSE d
    ELSE Ok(None)

TryGetRelease(resp) == ReadChainStorage(resp)

(***************************************************************************)
(* Deriving the binary name from the uri (download_binary, lines 158-164). *)
(***************************************************************************)
RECURSIVE TrimEndSlashes(_)
TrimEndSlashes(s) ==
    IF Len(s) > 0 /\ s[Len(s)] = "/" THEN TrimEndSlashes(SubSeq(s, 1, Len(s) - 1)) ELSE s

\* Url::parse: a uri without scheme is an error; an empty path becomes "/"
UrlParse(s) ==
    IF Len(s) = 0 \/ s[1] # "H" THEN Err("UrlParseError")
    ELSE Ok(IF Len(s) = 1 THEN <<"/">> ELSE Tail(s))

\* the segments of a path that starts with "/": the pieces between slashes
RECURSIVE Split(_, _)
Split(s, cur) ==
    IF Len(s) = 0 THEN <<cur>>
    ELSE IF s[1] = "/" THEN <<cur>> \o Split(Tail(s), <<>>)
    ELSE Split(Tail(s), Append(cur, s[1]))

PathSegments(path) == Split(Tail(path), <<>>)

BinName(uri) ==
    LET parsed == UrlParse(TrimEndSlashes(uri)) IN
    IF ~IsOk(parsed) THEN parsed
    ELSE LET segs == PathSegments(parsed.ok)
             name == segs[Len(segs)]
         IN  IF name = <<>> THEN Err("ClientNameDerivationError") ELSE Ok(name)

(***************************************************************************)
(* Files and processes.                                                    *)
(***************************************************************************)
Cwd == "."
Dirs == {Cwd, "dl"}
Names == {<<"a">>, <<"b">>}
Paths == Dirs \X Names

\* PathBuf::join
Join(dir, name) == <<dir, name>>

ExecMode    == 448     \* 0o700
DefaultMode == 420     \* 0o644: what File::create gives a new file

File(content, mode) == [content |-> content, mode |-> mode]

\* the body the HTTP server sends for a uri
Body(uri) == <<"body">> \o uri

NoProc == [st |-> "free", exe |-> None, termed |-> FALSE]
Live(p) == procs[p].st \in {"running", "zombie"}
LiveProcs == {p \in Pids : Live(p)}

\* struct DownloadedRelease
DownloadedRelease(release, path, bin_name) ==
    [release |-> release, path |-> path, bin_name |-> bin_name]

(***************************************************************************)
(* Control flow of Vaultvisor::run.                                        *)
(***************************************************************************)
\* a slip: comparing the whole release instead of its uri
UriChanged_WholeRelease(new_release, downloaded) == new_release # downloaded.release

\* a variant that also replaces a child that is no longer running
UriChanged_OrChildExited(new_release, downloaded) ==
    \/ new_release.uri # downloaded.release.uri
    \/ IsSome(child_proc) /\ procs[Unwrap(child_proc)].st # "running"

\* line 92
UriChanged(new_release, downloaded) == new_release.uri # downloaded.release.uri

\* a slip: the upgrade goes straight to the uninstall, without terminating
RunNext_SkipTerminate(at, boot) ==
    CASE at = "read"      -> IF boot THEN "download" ELSE "delete"
      [] at = "terminate" -> "delete"
      [] at = "delete"    -> "download"
      [] at = "download"  -> "run"
      [] at = "run"       -> IF boot THEN "read" ELSE "sleep"
      [] at = "sleep"     -> "read"

\* a slip: the upgrade uninstalls first and terminates the child afterwards
RunNext_DeleteFirst(at, boot) ==
    CASE at = "read"      -> IF boot THEN "download" ELSE "delete"
      [] at = "delete"    -> IF boot THEN "download" ELSE "terminate"
      [] at = "terminate" -> "download"
      [] at = "download"  -> "run"
      [] at = "run"       -> IF boot THEN "read" ELSE "sleep"
      [] at = "sleep"     -> "read"

\* where run continues after the operation at `at` returned Ok
RunNext(at, boot) ==
    CASE at = "read"      -> IF boot THEN "download" ELSE "terminate"
      [] at = "terminate" -> "delete"
      [] at = "delete"    -> "download"
      [] at = "download"  -> "run"
      [] at = "run"       -> IF boot THEN "read" ELSE "sleep"
      [] at = "sleep"     -> "read"

\* the positions at which the task is suspended at an .await
AwaitPoints == {"read", "fetch", "sleep"}

\* The race of Runner::run: a signal delivered while the loop runs is due at
\* the loop's next suspension point; the loop resumes from a suspension point
\* only while no signal is due.
Polled == sig' = IF sig = "fresh" THEN "due" ELSE sig
Resumes == sig # "due"

\* hist keeps the last Window operations run completed
Remember(op, ok) ==
    LET h == Append(hist, [op |-> op, ok |-> ok]) IN
    IF ctx \notin {"run", "call"} THEN hist
    ELSE IF Len(h) > Window THEN Tail(h) ELSE h

\* an operation returns Err(e).  In run the `?` returns it from run and
\* Runner::run takes over; a direct caller of the operation gets it back
Fail(e) ==
    /\ ret' = e
    /\ ctx' = IF ctx = "call" THEN "call" ELSE "error"
    /\ pc' = IF ctx = "call" THEN "idle" ELSE "terminate"

\* where control goes when the operation `at` returns Ok: on in run, or back
\* to the direct caller
Return(at) == IF ctx = "call" THEN "idle" ELSE RunNext(at, booting)

\* the process ends
Exit(code) ==
    /\ ctx' = "exit"
    /\ pc' = "done"
    /\ exit_code' = Some(code)

Init ==
    /\ download_path \in Dirs
    /\ chain \in ChainValues
    /\ \E stale \in SUBSET {Join(Cwd, <<"a">>)} :
          files = [p \in Paths |->
                     IF p \in stale THEN Some(File(<<"stale">>, ExecMode)) ELSE None]
    /\ procs = [p \in Pids |-> NoProc]
    /\ child_proc = None
    /\ downloaded_release = None
    /\ pc = "read"
    /\ booting = TRUE
    /\ pending = None
    /\ ctx = "run"
    /\ sig = "none"
    /\ ret = "none"
    /\ exit_code = None
    /\ hist = <<>>
    /\ rpc = "notyet"
    /\ log = ""

(***************************************************************************)
(* try_get_release as run uses it: line 84 (bootstrap) and lines 90-92.    *)
(***************************************************************************)
\* what the request produced, as the environment sees it
RpcKind(resp) ==
    IF resp.kind = "failure" THEN "failure"
    ELSE IF IsSome(resp.v) THEN "value" ELSE "null"

ReadRelease ==
    /\ ctx = "run" /\ pc = "read"
    /\ Resumes /\ Polled
    /\ \E resp \in Responses(chain) :
         LET r == TryGetRelease(resp) IN
         /\ rpc' = RpcKind(resp)
         /\ IF ~IsOk(r) THEN
               /\ Fail(r.err)
               /\ UNCHANGED <<pending, exit_code>>
            ELSE IF ~IsSome(r.ok) THEN
               /\ pending' = None
               /\ IF booting
                  THEN \* .expect("No current release") panics
                       /\ ret' = "panic"
                       /\ Exit(101)
                  ELSE /\ pc' = "sleep"
                       /\ UNCHANGED <<ctx, ret, exit_code>>
            ELSE
               /\ pending' = r.ok
               /\ IF booting THEN
                     /\ pc' = RunNext("read", TRUE)
                     /\ UNCHANGED <<ctx, ret, exit_code>>
                  ELSE IF ~IsSome(downloaded_release) THEN
                     /\ Fail("NoDownloadedRelease")
                     /\ UNCHANGED exit_code
                  ELSE IF UriChanged(Unwrap(r.ok), Unwrap(downloaded_release)) THEN
                     /\ pc' = RunNext("read", FALSE)
                     /\ UNCHANGED <<ctx, ret, exit_code>>
                  ELSE
                     /\ pc' = "sleep"
                     /\ UNCHANGED <<ctx, ret, exit_code>>
    /\ UNCHANGED <<download_path, chain, files, procs, child_proc, downloaded_release,
                   booting, hist, log>>

\* tokio::time::sleep(BLOCK_TIME), line 107
Sleep ==
    /\ ctx = "run" /\ pc = "sleep"
    /\ Resumes /\ Polled
    /\ pc' = RunNext("sleep", booting)
    /\ UNCHANGED <<download_path, chain, files, procs, child_proc, downloaded_release,
                   booting, pending, ctx, ret, exit_code, hist, rpc, log>>

(***************************************************************************)
(* terminate_proc_and_wait, lines 193-206.  It blocks in child_proc.wait() *)
(* until the child has exited, so it is two steps: the signal              *)
(* (lines 194-198), then the return of wait (lines 200-205).               *)
(***************************************************************************)
\* child_proc.id().try_into(): u32 -> i32
PidRaw(pid) == IF pid <= 2147483647 THEN Ok(pid) ELSE Err("IntegerConversionError")

\* signal::kill(pid, SIGTERM): ESRCH when the process is gone, EPERM when the
\* child may not be signalled
KillOutcomes(pid) == IF Live(pid) THEN {"ok", "EPERM"} ELSE {"ESRCH"}

TerminateKill ==
    /\ ctx \in {"run", "call"} /\ pc = "terminate"
    /\ IF ~IsSome(child_proc) THEN
          /\ Fail("NoChildProcess")
          /\ hist' = Remember("terminate", FALSE)
          /\ UNCHANGED procs
       ELSE LET pid == Unwrap(child_proc) IN
          IF ~IsOk(PidRaw(pid)) THEN
             /\ Fail(PidRaw(pid).err)
             /\ hist' = Remember("terminate", FALSE)
             /\ UNCHANGED procs
          ELSE \E out \in KillOutcomes(pid) :
             IF out = "ok" THEN
                /\ procs' = [procs EXCEPT ![pid].termed = TRUE]
                /\ pc' = "wait"
                /\ UNCHANGED <<ctx, ret, hist>>
             ELSE
                /\ Fail(out)
                /\ hist' = Remember("terminate", FALSE)
                /\ UNCHANGED procs
    /\ Polled
    /\ UNCHANGED <<download_path, chain, files, child_proc, downloaded_release,
                   booting, pending, exit_code, rpc, log>>

\* a slip: no wait at all, the child is signalled and forgotten
Wait_Skipped(pid) ==
    [returns |-> TRUE, result |-> Ok("status"), proc |-> procs[pid]]

\* a slip: try_wait() in place of wait(): it never blocks, and reaps only a zombie
Wait_TryWait(pid) ==
    [returns |-> TRUE,
     result  |-> IF procs[pid].st = "zombie" THEN Ok("status") ELSE Err("ECHILD"),
     proc    |-> IF procs[pid].st = "zombie" THEN NoProc ELSE procs[pid]]

\* child_proc.wait(), line 200: it returns once the child is no longer
\* running, Ok when it reaps the zombie, Err (ECHILD) when the child was
\* reaped behind the handle's back; `proc` is the child's entry afterwards
Wait(pid) ==
    [returns |-> procs[pid].st # "running",
     result  |-> IF procs[pid].st = "zombie" THEN Ok("status") ELSE Err("ECHILD"),
     proc    |-> NoProc]

\* a slip: line 204 left out
AfterTerminate_Kept == child_proc

\* line 204
AfterTerminate == None

\* lines 201-202
WaitLog(result) == IF IsOk(result) THEN "killed" ELSE "shutdown error"

TerminateWait ==
    /\ ctx \in {"run", "call"} /\ pc = "wait"
    /\ LET pid == Unwrap(child_proc)
           w == Wait(pid)
       IN  /\ w.returns
           /\ procs' = [procs EXCEPT ![pid] = w.proc]
           /\ log' = WaitLog(w.result)
    /\ child_proc' = AfterTerminate
    /\ hist' = Remember("terminate", TRUE)
    /\ pc' = Return("terminate")
    /\ Polled
    /\ UNCHANGED <<download_path, chain, files, downloaded_release, booting, pending,
                   ctx, ret, exit_code, rpc>>

(***************************************************************************)
(* delete_downloaded_release, lines 185-191.                               *)
(***************************************************************************)
\* fs::remove_file
RemoveOutcomes(path) == IF IsSome(files[path]) THEN {"ok", "EACCES"} ELSE {"ENOENT"}

\* a variant that removes the file and keeps the record
AfterDelete_Kept == downloaded_release

\* line 189: self.downloaded_release = None
AfterDelete == None

DeleteDownloadedRelease ==
    /\ ctx \in {"run", "call"} /\ pc = "delete"
    /\ IF ~IsSome(downloaded_release) THEN
          /\ Fail("NoDownloadedRelease")
          /\ hist' = Remember("uninstall", FALSE)
          /\ UNCHANGED <<files, downloaded_release>>
       ELSE LET path == Unwrap(downloaded_release).path IN
          \E out \in RemoveOutcomes(path) :
             IF out = "ok" THEN
                /\ files' = [files EXCEPT ![path] = None]
                /\ downloaded_release' = AfterDelete
                /\ pc' = Return("delete")
                /\ hist' = Remember("uninstall", TRUE)
                /\ UNCHANGED <<ctx, ret>>
             ELSE
                /\ Fail(out)
                /\ hist' = Remember("uninstall", FALSE)
                /\ UNCHANGED <<files, downloaded_release>>
    /\ Polled
    /\ UNCHANGED <<download_path, chain, procs, child_proc, booting, pending,
                   exit_code, rpc, log>>

(***************************************************************************)
(* download_binary, lines 156-183.  It is suspended once, in               *)
(* get_request_bytes (line 168): the part before it (deriving the name and *)
(* creating the file) and the part after it are one step each.             *)
(***************************************************************************)
\* File::create: fails on a file a running process executes (ETXTBSY)
CreateOutcomes(path) ==
    IF \E p \in Pids : procs[p].st = "running" /\ procs[p].exe = Some(path)
    THEN {"ETXTBSY"} ELSE {"ok", "EACCES"}

\* File::create truncates; a file that exists keeps its mode
Created(path) ==
    File(<<>>, IF IsSome(files[path]) THEN Unwrap(files[path]).mode ELSE DefaultMode)

DownloadBegin ==
    /\ ctx \in {"run", "call"} /\ pc = "download"
    /\ LET release == Unwrap(pending)
           bin_name == BinName(release.uri)
       IN  IF ~IsOk(bin_name) THEN
              /\ Fail(bin_name.err)
              /\ hist' = Remember("install", FALSE)
              /\ UNCHANGED files
           ELSE LET bin_path == Join(download_path, bin_name.ok) IN
              \E out \in CreateOutcomes(bin_path) :
                 IF out = "ok" THEN
                    /\ files' = [files EXCEPT ![bin_path] = Some(Created(bin_path))]
                    /\ pc' = "fetch"
                    /\ UNCHANGED <<ctx, ret, hist>>
                 ELSE
                    /\ Fail(out)
                    /\ hist' = Remember("install", FALSE)
                    /\ UNCHANGED files
    /\ Polled
    /\ UNCHANGED <<download_path, chain, procs, child_proc, downloaded_release, booting,
                   pending, exit_code, rpc, log>>

\* how lines 168-175 can end
FinishOutcomes == {"ok", "HttpError", "CopyError", "ChmodError"}

\* a variant that leaves the file with the mode File::create gave it
Written_NoChmod(release, old, out) ==
    IF out \in {"ok", "ChmodError"} THEN File(Body(release.uri), old.mode) ELSE old

\* the file after lines 168-175: the bytes fetched from release.uri (the uri
\* as the chain gave it) are copied into it, then its mode is set to 0o700
Written(release, old, out) ==
    CASE out = "ok"         -> File(Body(release.uri), ExecMode)
      [] out = "ChmodError" -> File(Body(release.uri), old.mode)
      [] OTHER              -> old

DownloadFinish ==
    /\ ctx \in {"run", "call"} /\ pc = "fetch"
    /\ Resumes /\ Polled
    /\ LET release == Unwrap(pending)
           bin_name == BinName(release.uri).ok
           bin_path == Join(download_path, bin_name)
           old == Unwrap(files[bin_path])
       IN  \E out \in FinishOutcomes :
              /\ files' = [files EXCEPT ![bin_path] = Some(Written(release, old, out))]
              /\ IF out = "ok" THEN
                    /\ downloaded_release' =
                          Some(DownloadedRelease(release, bin_path, bin_name))
                    /\ pc' = Return("download")
                    /\ hist' = Remember("install", TRUE)
                    /\ UNCHANGED <<ctx, ret>>
                 ELSE
                    /\ Fail(out)
                    /\ hist' = Remember("install", FALSE)
                    /\ UNCHANGED downloaded_release
    /\ UNCHANGED <<download_path, chain, procs, child_proc, booting, pending,
                   exit_code, rpc, log>>

(***************************************************************************)
(* run_binary, lines 142-154.                                              *)
(***************************************************************************)
\* Command::new("./<bin_name>"): the name is resolved in the working directory
CommandPath(bin_name) == Join(Cwd, bin_name)

\* Command::spawn: the pids it can return (none: it fails)
SpawnPids(exe) ==
    IF IsSome(files[exe]) /\ Unwrap(files[exe]).mode = ExecMode
    THEN {p \in Pids : ~Live(p)} ELSE {}

\* a variant without the check of line 144
RunBinaryCheck_NoChildCheck ==
    IF ~IsSome(downloaded_release) THEN Err("NoDownloadedRelease")
    ELSE Ok(Unwrap(downloaded_release))

\* lines 144-147: the child must be absent, the downloaded release present
RunBinaryCheck ==
    IF IsSome(child_proc) THEN Err("ChildProcessExists")
    ELSE IF ~IsSome(downloaded_release) THEN Err("NoDownloadedRelease")
    ELSE Ok(Unwrap(downloaded_release))

RunBinary ==
    /\ ctx \in {"run", "call"} /\ pc = "run"
    /\ IF ~IsOk(RunBinaryCheck) THEN
          /\ Fail(RunBinaryCheck.err)
          /\ hist' = Remember("spawn", FALSE)
          /\ UNCHANGED <<procs, child_proc, booting>>
       ELSE LET exe == CommandPath(RunBinaryCheck.ok.bin_name) IN
          \/ \E pid \in SpawnPids(exe) :
                /\ procs' = [procs EXCEPT ![pid] =
                      [st |-> "running", exe |-> Some(exe), termed |-> FALSE]]
                /\ child_proc' = Some(pid)
                /\ pc' = Return("run")
                /\ booting' = FALSE
                /\ hist' = Remember("spawn", TRUE)
                /\ UNCHANGED <<ctx, ret>>
          \/ /\ Fail("SpawnError")
             /\ hist' = Remember("spawn", FALSE)
             /\ UNCHANGED <<procs, child_proc, booting>>
    /\ Polled
    /\ UNCHANGED <<download_path, chain, files, downloaded_release, pending,
                   exit_code, rpc, log>>

(***************************************************************************)
(* Runner::run: the run loop raced against the shutdown signals.           *)
(***************************************************************************)
\* a signal that is due wins the race at a suspension point of the loop: Terminating
HandleSignal ==
    /\ sig \in {"fresh", "due"} /\ ctx = "run" /\ pc \in AwaitPoints
    /\ ctx' = "signal"
    /\ pc' = "terminate"
    /\ sig' = "handled"
    /\ UNCHANGED <<download_path, chain, files, procs, child_proc, downloaded_release,
                   booting, pending, ret, exit_code, hist, rpc, log>>

\* exit code of Runner::run's two ways out: 0 on a signal, 1 on an error of run
RunnerExitCode == IF ctx = "signal" THEN 0 ELSE 1

\* Runner::run terminates the child before it exits: terminate_proc_and_wait
\* up to its kill; a failure is logged and the supervisor exits
RunnerTerminateKill ==
    /\ ctx \in {"signal", "error"} /\ pc = "terminate"
    /\ IF ~IsSome(child_proc) THEN
          /\ log' = "NoChildProcess"
          /\ Exit(RunnerExitCode)
          /\ UNCHANGED procs
       ELSE LET pid == Unwrap(child_proc) IN
          IF ~IsOk(PidRaw(pid)) THEN
             /\ log' = PidRaw(pid).err
             /\ Exit(RunnerExitCode)
             /\ UNCHANGED procs
          ELSE \E out \in KillOutcomes(pid) :
             IF out = "ok" THEN
                /\ procs' = [procs EXCEPT ![pid].termed = TRUE]
                /\ pc' = "wait"
                /\ UNCHANGED <<ctx, exit_code, log>>
             ELSE
                /\ log' = out
                /\ Exit(RunnerExitCode)
                /\ UNCHANGED procs
    /\ UNCHANGED <<download_path, chain, files, child_proc, downloaded_release,
                   booting, pending, sig, ret, hist, rpc>>

\* ... and its wait; then the supervisor exits
RunnerTerminateWait ==
    /\ ctx \in {"signal", "error"} /\ pc = "wait"
    /\ LET pid == Unwrap(child_proc)
           w == Wait(pid)
       IN  /\ w.returns
           /\ procs' = [procs EXCEPT ![pid] = w.proc]
           /\ log' = WaitLog(w.result)
    /\ child_proc' = AfterTerminate
    /\ Exit(RunnerExitCode)
    /\ UNCHANGED <<download_path, chain, files, downloaded_release, booting, pending,
                   sig, ret, hist, rpc>>

(***************************************************************************)
(* The environment.                                                        *)
(***************************************************************************)
\* The chain's Current release changes.  The supervisor sees the chain only in
\* the request of a read, so a change counts from the read that follows it.
ChainSet ==
    /\ ctx = "run" /\ pc = "read"
    /\ chain' \in ChainValues \ {chain}
    /\ UNCHANGED <<download_path, files, procs, child_proc, downloaded_release, pc,
                   booting, pending, ctx, sig, ret, exit_code, hist, rpc, log>>

\* a child exits, on its own or because of SIGTERM: it is a zombie until reaped
ChildExit ==
    /\ \E p \in Pids :
          /\ procs[p].st = "running"
          /\ procs' = [procs EXCEPT ![p].st = "zombie"]
    /\ UNCHANGED <<download_path, chain, files, child_proc, downloaded_release, pc,
                   booting, pending, ctx, sig, ret, exit_code, hist, rpc, log>>

\* a zombie is reaped without the Child handle (SIGCHLD ignored by the process)
AutoReap ==
    /\ \E p \in Pids :
          /\ procs[p].st = "zombie"
          /\ procs' = [procs EXCEPT ![p] = NoProc]
    /\ UNCHANGED <<download_path, chain, files, child_proc, downloaded_release, pc,
                   booting, pending, ctx, sig, ret, exit_code, hist, rpc, log>>

\* SIGHUP, SIGINT, SIGTERM or SIGQUIT is delivered to the supervisor
Signal ==
    /\ sig = "none" /\ ctx = "run"
    /\ sig' = "fresh"
    /\ UNCHANGED <<download_path, chain, files, procs, child_proc, downloaded_release,
                   pc, booting, pending, ctx, ret, exit_code, hist, rpc, log>>

Next ==
    \/ ReadRelease
    \/ Sleep
    \/ TerminateKill
    \/ TerminateWait
    \/ DeleteDownloadedRelease
    \/ DownloadBegin
    \/ DownloadFinish
    \/ RunBinary
    \/ HandleSignal
    \/ RunnerTerminateKill
    \/ RunnerTerminateWait
    \/ ChainSet
    \/ ChildExit
    \/ AutoReap
    \/ Signal

Spec == Init /\ [][Next]_vars

\* the steps of the supervisor's own task
Supervisor ==
    \/ ReadRelease \/ Sleep \/ TerminateKill \/ TerminateWait
    \/ DeleteDownloadedRelease \/ DownloadBegin \/ DownloadFinish \/ RunBinary
    \/ HandleSignal \/ RunnerTerminateKill \/ RunnerTerminateWait

\* a child that was sent SIGTERM exits
TermedExit ==
    /\ ChildExit
    /\ \E p \in Pids : procs[p].termed /\ procs[p].st = "running" /\ procs'[p].st = "zombie"

\* The task keeps running (every chain read, fetch and sleep completes), and
\* the supervised binary honours SIGTERM.
FairSpec == Spec /\ WF_vars(Supervisor) /\ WF_vars(TermedExit)

(***************************************************************************)
(* The operations of VaultvisorUtils called directly (lines 51-62: the     *)
(* trait is public, and new (lines 73-81) gives a supervisor with no child *)
(* and no downloaded release).  A caller may invoke terminate_proc_and_wait,*)
(* delete_downloaded_release, download_binary and run_binary in any order, *)
(* each after the one before it returned; ret holds the error of the last  *)
(* call, "none" when it returned Ok.                                       *)
(***************************************************************************)
Operations == {"terminate", "delete", "download", "run"}

\* the caller makes at most MaxCalls calls
MaxCalls == 3

OpsInit ==
    /\ download_path \in Dirs
    /\ chain = None
    /\ \E stale \in SUBSET {Join(Cwd, <<"a">>)} :
          files = [p \in Paths |->
                     IF p \in stale THEN Some(File(<<"stale">>, ExecMode)) ELSE None]
    /\ procs = [p \in Pids |-> NoProc]
    /\ child_proc = None
    /\ downloaded_release = None
    /\ pc = "idle"
    /\ booting = FALSE
    /\ pending = None
    /\ ctx = "call"
    /\ sig = "none"
    /\ ret = "none"
    /\ exit_code = None
    /\ hist = <<>>
    /\ rpc = "notyet"
    /\ log = ""

\* the caller invokes an operation; download_binary is given a release
Call ==
    /\ ctx = "call" /\ pc = "idle"
    /\ Len(hist) < MaxCalls
    /\ \E op \in Operations :
          /\ pc' = op
          /\ IF op = "download"
             THEN \E r \in Releases : pending' = Some(r)
             ELSE pending' = pending
    /\ ret' = "none"
    /\ UNCHANGED <<download_path, chain, files, procs, child_proc, downloaded_release,
                   booting, ctx, sig, exit_code, hist, rpc, log>>

OpsNext ==
    \/ Call
    \/ TerminateKill
    \/ TerminateWait
    \/ DeleteDownloadedRelease
    \/ DownloadBegin
    \/ DownloadFinish
    \/ RunBinary
    \/ ChildExit
    \/ AutoReap

OpsSpec == OpsInit /\ [][OpsNext]_vars

(***************************************************************************)
(* Properties.                                                             *)
(***************************************************************************)
Ev(op, ok) == [op |-> op, ok |-> ok]
LastOp == IF hist = <<>> THEN Ev("none", TRUE) ELSE hist[Len(hist)]
\* run has completed an upgrade: terminate, uninstall, install, spawn, all Ok
Upgraded ==
    /\ Len(hist) >= 4
    /\ hist[Len(hist) - 3] = Ev("terminate", TRUE)
    /\ hist[Len(hist) - 2] = Ev("uninstall", TRUE)
    /\ hist[Len(hist) - 1] = Ev("install", TRUE)
    /\ hist[Len(hist)] = Ev("spawn", TRUE)
\* the step is run's read of the release on a tick (lines 90-92), not a signal
TickRead ==
    /\ ctx = "run" /\ pc = "read" /\ ~booting
    /\ ctx' # "signal"
    /\ <<pc, ctx>>' # <<pc, ctx>>

\* C1: in every reachable state at most one child spawned by the supervisor
\* is live (spawned and not yet reaped).
C1_AtMostOneLiveChild == Cardinality(LiveProcs) <= 1

\* C1 witness: an upgrade has completed and the new child is live.
C1_Witness == Upgraded /\ Cardinality(LiveProcs) = 1 /\ IsSome(child_proc)

\* C2: the steps of an upgrade happen in the order terminate, uninstall,
\* install, spawn; each starts only after the one before it returned Ok; the
\* first operation of a run is the bootstrap install; and between two spawns
\* there is a completed terminate.
C2_UpgradeOrder ==
    /\ \A i \in 2..Len(hist) :
          /\ hist[i].op = "terminate" => hist[i - 1] = Ev("spawn", TRUE)
          /\ hist[i].op = "uninstall" => hist[i - 1] = Ev("terminate", TRUE)
          /\ hist[i].op = "install"   => hist[i - 1] = Ev("uninstall", TRUE)
          /\ hist[i].op = "spawn"     => hist[i - 1] = Ev("install", TRUE)
    /\ (hist # <<>> /\ Len(hist) < Window) => hist[1].op = "install"
    /\ ctx = "run" =>
          /\ pc \in {"terminate", "wait"} => LastOp = Ev("spawn", TRUE)
          /\ pc = "delete" => LastOp = Ev("terminate", TRUE)
          /\ (pc \in {"download", "fetch"} /\ ~booting) => LastOp = Ev("uninstall", TRUE)
          /\ pc = "run" => LastOp = Ev("install", TRUE)
    /\ \A i, j \in 1..Len(hist) :
          (i < j /\ hist[i] = Ev("spawn", TRUE) /\ hist[j] = Ev("spawn", TRUE))
             => \E k \in (i + 1)..(j - 1) : hist[k] = Ev("terminate", TRUE)

\* C2 witness: two spawns with a whole upgrade between them.
C2_Witness == Upgraded /\ Len(hist) >= 5 /\ hist[Len(hist) - 4] = Ev("spawn", TRUE)

\* C3: whenever a file of the download directory is deleted, created or
\* written, no child is live: the old child has exited and is out of the
\* process table, whether wait returned Ok or Err.
C3_ReapedBeforeFilesChange == [][files' # files => LiveProcs = {}]_vars

\* C3 witness: wait reported an error, and the upgrade then removed the old
\* binary and installed the new one.
C3_Witness ==
    /\ log = "shutdown error"
    /\ Len(hist) >= 3
    /\ hist[Len(hist) - 2] = Ev("terminate", TRUE)
    /\ hist[Len(hist) - 1] = Ev("uninstall", TRUE)
    /\ hist[Len(hist)] = Ev("install", TRUE)

\* C4: between loop iterations and wherever run has returned or been
\* abandoned, a recorded child implies a recorded downloaded release.
C4_ChildImpliesDownloaded ==
    (pc \in {"sleep", "read"} \/ ctx # "run")
       => (IsSome(child_proc) => IsSome(downloaded_release))

\* C4 witness: run has just returned an error while a child is recorded.
C4_Witness ==
    ctx = "error" /\ pc = "terminate" /\ ret = "DecodeError" /\ IsSome(child_proc)

\* C7: on a tick that read a release, the upgrade starts iff the uri read
\* differs from the downloaded one; with the same uri the loop goes to sleep
\* and child, downloaded release, files, processes and history are unchanged,
\* whatever the code_hash.
C7_UpgradeIffUriDiffers ==
    [][(TickRead /\ IsSome(pending') /\ IsSome(downloaded_release) /\ ctx' = "run")
          => LET new == Unwrap(pending')
                 old == Unwrap(downloaded_release).release
             IN  /\ new.uri # old.uri <=> pc' = "terminate"
                 /\ new.uri = old.uri =>
                       /\ pc' = "sleep"
                       /\ UNCHANGED <<child_proc, downloaded_release, files, procs, hist>>
       ]_vars

\* C7 witness: a tick read the downloaded uri with another code_hash and the
\* loop went to sleep with its child running.
C7_Witness ==
    /\ ctx = "run" /\ pc = "sleep" /\ IsSome(pending) /\ IsSome(downloaded_release)
    /\ Unwrap(pending).uri = Unwrap(downloaded_release).release.uri
    /\ Unwrap(pending).code_hash # Unwrap(downloaded_release).release.code_hash
    /\ IsSome(child_proc) /\ procs[Unwrap(child_proc)].st = "running"

\* C8: after the bootstrap, a tick whose request yields null or fails leaves
\* the supervisor in the loop: it goes to sleep, and child, processes,
\* downloaded release, files and history are unchanged.
C8_NoReleaseIsNoChange ==
    [][(TickRead /\ rpc' \in {"null", "failure"})
          => /\ ctx' = "run" /\ pc' = "sleep"
             /\ UNCHANGED <<child_proc, procs, downloaded_release, files, hist>>
       ]_vars

\* C8 witness: the request failed on a tick and the loop sleeps with the
\* child it had.
C8_Witness ==
    /\ ctx = "run" /\ pc = "sleep" /\ rpc = "failure" /\ ~booting
    /\ IsSome(child_proc) /\ procs[Unwrap(child_proc)].st = "running"
    /\ IsSome(downloaded_release)

NoChildRunning == \A p \in Pids : procs[p].st # "running"
NoFileWritten ==
    \A p \in Paths : IsSome(files[p]) => Unwrap(files[p]).content = <<"stale">>

\* C5 as stated: after the supervisor has exited on a shutdown signal, no
\* child is left running.
C5_NoChildAfterSignalExit == (ctx = "exit" /\ sig = "handled") => NoChildRunning

\* C5 amended: a signal delivered while run is in progress leads to the
\* supervisor's exit; once it is handled the supervisor is Terminating and
\* exits with code 0; after such an exit no child is running unless the
\* delivery of SIGTERM failed with EPERM.
C5_ShutdownOnSignal ==
    /\ []((ctx = "exit" /\ sig = "handled")
            => (exit_code = Some(0) /\ (NoChildRunning \/ log = "EPERM")))
    /\ ((sig \in {"fresh", "due"} /\ ctx = "run") ~> (ctx = "exit"))

\* C5 witness: the supervisor exited on a signal after reaping its child.
C5_Witness ==
    /\ ctx = "exit" /\ sig = "handled" /\ exit_code = Some(0)
    /\ log = "killed" /\ LastOp = Ev("spawn", TRUE) /\ LiveProcs = {}

\* C6 as stated: the supervisor never exits on a fatal error leaving a
\* spawned child running.
C6_NoChildAfterErrorExit ==
    (ctx = "exit" /\ exit_code \notin {Some(0)}) => NoChildRunning

\* C6 amended: when run returns an error the child is sent SIGTERM and reaped
\* before the supervisor exits with code 1, unless the delivery of SIGTERM
\* failed with EPERM: only then is a child still running at the exit.
C6_TerminatedBeforeErrorExit ==
    (ctx = "exit" /\ exit_code \notin {Some(0)})
       => /\ ret # "none"
          /\ exit_code = Some(1) \/ ret = "panic"
          /\ NoChildRunning \/ log = "EPERM"

\* C6 witness: run returned a decode error while its child was running, and
\* the supervisor exited with code 1 after reaping the child.
C6_Witness ==
    /\ ctx = "exit" /\ exit_code = Some(1) /\ ret = "DecodeError"
    /\ log = "killed" /\ LastOp = Ev("spawn", TRUE) /\ LiveProcs = {}

\* C9 as stated: when the bootstrap read yields null, run returns the error
\* NoCurrentRelease, the supervisor exits with code 1, no file is written
\* and no child is spawned.
C9_NoCurrentReleaseError ==
    (booting /\ rpc = "null")
       => /\ ret = "NoCurrentRelease"
          /\ ctx = "exit" => exit_code = Some(1)
          /\ NoFileWritten /\ LiveProcs = {} /\ ~IsSome(child_proc)

\* C10 as stated: when the typed read has returned None (run went to sleep
\* without a release, or the bootstrap found none), the chain held no value
\* at the key: the request did not fail.
C10_NoneMeansAbsent ==
    ((ctx = "run" /\ pc = "sleep" /\ pending = None) \/ (booting /\ ret = "panic"))
       => rpc = "null"

\* the step is run's read of the release, at bootstrap (line 84) or on a tick
\* (line 90), and the request produced the bytes the chain holds
ReadOfValue ==
    /\ ctx = "run" /\ pc = "read"
    /\ ctx' # "signal"
    /\ <<pc, ctx>>' # <<pc, ctx>>
    /\ rpc' = "value"

\* C11: when the bytes the chain holds for Current are not the encoding of a
\* ClientRelease (cut short, or a uri that is not UTF-8), the read of them,
\* at bootstrap or on a tick, yields DecodeError: run binds no release and
\* returns that error without a terminate, uninstall, install or spawn of
\* its own; nothing is installed, removed or spawned afterwards, and the
\* supervisor's exit code is 1.
C11_DecodeErrorStopsRun ==
    /\ [][(ReadOfValue /\ chain \in {Some(Truncated), Some(BadUtf8)})
             => /\ ret' = "DecodeError" /\ ctx' = "error"
                /\ UNCHANGED <<pending, files, procs, child_proc,
                               downloaded_release, hist>>]_vars
    /\ [](ret = "DecodeError"
             => /\ ctx \in {"error", "exit"}
                /\ ctx = "exit" => exit_code = Some(1))
    /\ [][ret = "DecodeError"
             => /\ UNCHANGED <<files, downloaded_release, hist>>
                /\ \A p \in Pids : procs'[p].st = "running" => procs[p].st = "running"]_vars

\* C11 witness: a tick read bytes whose uri is not UTF-8 while a child was
\* running; run stopped with DecodeError right after its last spawn.
C11_Witness ==
    /\ ctx = "error" /\ ret = "DecodeError" /\ rpc = "value" /\ ~booting
    /\ chain = Some(BadUtf8)
    /\ LastOp = Ev("spawn", TRUE) /\ IsSome(child_proc) /\ IsSome(downloaded_release)

\* C11 witness at bootstrap is the same read with nothing installed yet.
C11_BootWitness ==
    /\ ctx = "error" /\ ret = "DecodeError" /\ booting /\ chain = Some(Truncated)
    /\ hist = <<>> /\ ~IsSome(downloaded_release)

\* C12 as stated: for every download directory, the executable a child
\* spawned by run_binary runs is the file recorded in downloaded_release.path
\* (<download_path>/<bin_name>), the binary the last download_binary wrote.
C12_ChildRunsDownloadedPath ==
    (IsSome(child_proc) /\ IsSome(downloaded_release) /\ Live(Unwrap(child_proc)))
       => procs[Unwrap(child_proc)].exe = Some(Unwrap(downloaded_release).path)

\* C13: whenever downloaded_release is Some(d), the file at d.path exists,
\* its content is the byte stream fetched from d.release.uri and its mode is
\* 0o700; d.path is the download directory joined with d.bin_name.
C13_DownloadedFileInstalled ==
    IsSome(downloaded_release) =>
       LET d == Unwrap(downloaded_release) IN
       /\ d.path = Join(download_path, d.bin_name)
       /\ IsSome(files[d.path])
       /\ Unwrap(files[d.path]) = File(Body(d.release.uri), ExecMode)

\* C13 witness: download_binary has just returned Ok for a release whose uri
\* ends in a slash, into a directory that is not the working directory.
C13_Witness ==
    /\ ctx = "run" /\ pc = "run" /\ LastOp = Ev("install", TRUE)
    /\ IsSome(downloaded_release)
    /\ Unwrap(downloaded_release).release.uri = UriASlash
    /\ download_path # Cwd
    /\ files[Unwrap(downloaded_release).path] = Some(File(Body(UriASlash), ExecMode))

\* a file download_binary created or wrote is in the download directory
BinaryOnDisk ==
    \E n \in Names :
       LET f == files[Join(download_path, n)] IN
       IsSome(f) /\ Unwrap(f).content # <<"stale">>

\* C14 as stated: in every state between two operations of the supervisor
\* (not inside download_binary or terminate_proc_and_wait),
\* downloaded_release is Some exactly when a file written by the supervisor
\* is in the download directory: no such file while it is None (for example
\* after a fetch that failed), and no Some while the file is absent.
C14_DownloadedIffFileOnDisk ==
    pc \notin {"fetch", "wait"} => (IsSome(downloaded_release) <=> BinaryOnDisk)

\* the step is run_binary, in run or called directly
RunBinaryStep ==
    /\ ctx \in {"run", "call"} /\ pc = "run"
    /\ <<pc, ctx>>' # <<pc, ctx>>

\* C15: run_binary with a child present returns ChildProcessExists, and
\* with no child and no downloaded release returns NoDownloadedRelease; in
\* both cases it launches no process and leaves child_proc and
\* downloaded_release (and the files) as they were.  It launches a process
\* and sets child_proc to it only when downloaded_release is Some and
\* child_proc is None.
C15_RunBinaryPreconditions ==
    [][RunBinaryStep =>
         /\ IsSome(child_proc) =>
               /\ ret' = "ChildProcessExists"
               /\ UNCHANGED <<procs, child_proc, downloaded_release, files>>
         /\ (~IsSome(child_proc) /\ ~IsSome(downloaded_release)) =>
               /\ ret' = "NoDownloadedRelease"
               /\ UNCHANGED <<procs, child_proc, downloaded_release, files>>
         /\ (procs' # procs \/ child_proc' # child_proc) =>
               /\ IsSome(downloaded_release) /\ ~IsSome(child_proc)
               /\ ret' = "none"
               /\ IsSome(child_proc')
               /\ ~Live(Unwrap(child_proc'))
               /\ procs'[Unwrap(child_proc')].st = "running"
               /\ \A p \in Pids \ {Unwrap(child_proc')} : procs'[p] = procs[p]
         /\ UNCHANGED <<downloaded_release, files>>]_vars

\* C15 witness: run_binary was called a second time while the child of the
\* first call was running, and returned ChildProcessExists.
C15_Witness ==
    /\ ctx = "call" /\ pc = "idle" /\ ret = "ChildProcessExists"
    /\ hist = <<Ev("install", TRUE), Ev("spawn", TRUE), Ev("spawn", FALSE)>>
    /\ IsSome(child_proc) /\ Cardinality(LiveProcs) = 1

\* run_binary was called with neither a child nor a downloaded release
C15_NoReleaseWitness ==
    /\ ctx = "call" /\ pc = "idle" /\ ret = "NoDownloadedRelease"
    /\ LastOp = Ev("spawn", FALSE) /\ ~IsSome(child_proc) /\ ~IsSome(downloaded_release)

\* the step is terminate_proc_and_wait up to its kill (lines 194-198), and
\* its wait (lines 200-205), in run or called directly
TerminateKillStep ==
    /\ ctx \in {"run", "call"} /\ pc = "terminate"
    /\ <<pc, ctx>>' # <<pc, ctx>>
TerminateWaitStep ==
    /\ ctx \in {"run", "call"} /\ pc = "wait"
    /\ pc' # "wait"

\* C16 as stated: terminate_proc_and_wait called with a child clears
\* child_proc on return for every outcome of the delivery of SIGTERM and of
\* the wait, a failed delivery included; called with no child it returns
\* NoChildProcess and changes nothing.
C16_ChildClearedOnEveryReturn ==
    [][((TerminateKillStep /\ pc' # "wait") \/ TerminateWaitStep) =>
          IF IsSome(child_proc) THEN child_proc' = None
          ELSE /\ ret' = "NoChildProcess"
               /\ UNCHANGED <<procs, child_proc, downloaded_release, files>>]_vars

\* C16 amended: called with no child, terminate_proc_and_wait returns
\* NoChildProcess and changes nothing.  Called with a child, it returns the
\* error of kill and leaves child_proc and the process as they were when
\* the delivery of SIGTERM fails; once SIGTERM is delivered it waits, and
\* for every outcome of the wait (an exit status or a wait error, logged)
\* it returns Ok with child_proc cleared and the child reaped.
C16_ChildClearedAfterWait ==
    /\ [][TerminateKillStep =>
            /\ ~IsSome(child_proc) =>
                  /\ ret' = "NoChildProcess"
                  /\ UNCHANGED <<procs, child_proc, downloaded_release, files>>
            /\ (IsSome(child_proc) /\ pc' # "wait") =>
                  /\ ret' \in {"EPERM", "ESRCH", "IntegerConversionError"}
                  /\ UNCHANGED <<procs, child_proc, downloaded_release, files>>
            /\ pc' = "wait" =>
                  /\ IsSome(child_proc) /\ child_proc' = child_proc
                  /\ procs'[Unwrap(child_proc)].termed]_vars
    /\ [][TerminateWaitStep =>
            /\ IsSome(child_proc) /\ child_proc' = None
            /\ procs'[Unwrap(child_proc)] = NoProc
            /\ ret' = "none"
            /\ log' \in {"killed", "shutdown error"}
            /\ UNCHANGED <<downloaded_release, files>>]_vars

\* C16 witness: the delivery of SIGTERM to the running child failed with
\* EPERM; the call returned that error and the child is still recorded.
C16_Witness ==
    /\ ctx = "call" /\ pc = "idle" /\ ret = "EPERM"
    /\ hist = <<Ev("install", TRUE), Ev("spawn", TRUE), Ev("terminate", FALSE)>>
    /\ IsSome(child_proc) /\ procs[Unwrap(child_proc)].st = "running"

\* the wait failed (the child was reaped without the handle) and the call
\* returned Ok with child_proc cleared
C16_WaitErrorWitness ==
    /\ ctx = "call" /\ pc = "idle" /\ ret = "none" /\ log = "shutdown error"
    /\ LastOp = Ev("terminate", TRUE) /\ ~IsSome(child_proc)

\* terminate_proc_and_wait was called with no child
C16_NoChildWitness ==
    /\ ctx = "call" /\ pc = "idle" /\ ret = "NoChildProcess"
    /\ hist = <<Ev("terminate", FALSE)>> /\ ~IsSome(child_proc)

\* the step is delete_downloaded_release, in run or called directly
DeleteStep ==
    /\ ctx \in {"run", "call"} /\ pc = "delete"
    /\ <<pc, ctx>>' # <<pc, ctx>>

\* C17: delete_downloaded_release called with no downloaded release returns
\* NoDownloadedRelease and leaves files, processes, child_proc and
\* downloaded_release unchanged.  Called with one, it either returns Ok
\* having removed the file at its path and cleared downloaded_release, or
\* returns the error of remove_file having changed nothing.  So of two
\* calls in a row after an install, when the first returns Ok the second
\* returns NoDownloadedRelease.
C17_DeleteTwice ==
    /\ [][DeleteStep =>
            IF ~IsSome(downloaded_release) THEN
               /\ ret' = "NoDownloadedRelease"
               /\ UNCHANGED <<files, procs, child_proc, downloaded_release>>
            ELSE LET path == Unwrap(downloaded_release).path IN
               /\ UNCHANGED <<procs, child_proc>>
               /\ \/ /\ ret' = "none"
                     /\ downloaded_release' = None
                     /\ files' = [files EXCEPT ![path] = None]
                  \/ /\ ret' \in {"EACCES", "ENOENT"}
                     /\ UNCHANGED <<files, downloaded_release>>]_vars
    /\ [](\A i \in 1..(Len(hist) - 1) :
            (hist[i] = Ev("uninstall", TRUE) /\ hist[i + 1].op = "uninstall")
               => /\ ~hist[i + 1].ok
                  /\ (i + 1 = Len(hist) /\ (pc = "idle" \/ ctx = "error"))
                        => ret = "NoDownloadedRelease")

\* C17 witness: after one install, delete_downloaded_release was called
\* twice in a row: Ok (the file is gone, the record cleared), then
\* NoDownloadedRelease.
C17_Witness ==
    /\ ctx = "call" /\ pc = "idle" /\ ret = "NoDownloadedRelease"
    /\ hist = <<Ev("install", TRUE), Ev("uninstall", TRUE), Ev("uninstall", FALSE)>>
    /\ ~IsSome(downloaded_release) /\ ~BinaryOnDisk

\* the child recorded in child_proc is blocked on: SIGTERM was delivered and
\* the child has not exited
Wedged ==
    /\ ctx = "run" /\ pc = "wait"
    /\ procs[Unwrap(child_proc)].st = "running"

\* C18 as stated, in its finite form: when the last step of an upgrade (the
\* spawn after terminate, uninstall and install, all Ok) returns, the
\* supervisor is Running with the old child reaped, the old release's file
\* removed, the new release's file installed and a new live child that runs
\* the new release's file; and while the old child does not exit after
\* SIGTERM the supervisor stays in terminate_proc_and_wait and neither
\* installs nor spawns.
C18_UpgradeReachesNewRelease ==
    /\ [][(RunBinaryStep /\ ctx = "run" /\ ~booting /\ ctx' = "run") =>
            /\ Upgraded'
            /\ pc' = "sleep"
            /\ IsSome(child_proc') /\ LiveProcs' = {Unwrap(child_proc')}
            /\ procs'[Unwrap(child_proc')].st = "running"
            /\ downloaded_release' = downloaded_release
            /\ Unwrap(downloaded_release).release = Unwrap(pending)
            /\ files'[Unwrap(downloaded_release).path]
                  = Some(File(Body(Unwrap(pending).uri), ExecMode))
            /\ \A n \in Names :
                  LET q == Join(download_path, n) IN
                  (IsSome(files'[q]) /\ Unwrap(files'[q]).content # <<"stale">>)
                     => q = Unwrap(downloaded_release).path
            /\ procs'[Unwrap(child_proc')].exe = Some(Unwrap(downloaded_release).path)]_vars
    /\ [][Wedged =>
            /\ pc' = "wait" /\ ctx' = "run"
            /\ UNCHANGED <<files, child_proc, downloaded_release, hist>>
            /\ \A p \in Pids : procs'[p].st = "running" => procs[p].st = "running"]_vars

\* an upgrade that has started ends: it completes, or run stops (an error,
\* a shutdown signal)
C18_UpgradeEnds ==
    (ctx = "run" /\ pc = "terminate")
       ~> ((ctx = "run" /\ pc = "sleep" /\ Upgraded) \/ ctx # "run")

\* the errors download_binary returns
InstallErrors ==
    {"UrlParseError", "ClientNameDerivationError", "EACCES", "ETXTBSY",
     "HttpError", "CopyError", "ChmodError"}

\* C19: when the install of an upgrade fails (no usable last path segment,
\* the file cannot be created, the fetch or the write fails), run returns
\* that error in a state with child_proc = None, downloaded_release = None
\* and no child process alive; and a download_binary that returns an error
\* leaves downloaded_release as it was, only an Ok return sets it.
C19_FailedInstallLeavesNothing ==
    /\ []((ctx = "error" /\ pc = "terminate" /\ ~booting
              /\ LastOp = Ev("install", FALSE))
            => /\ ret \in InstallErrors
               /\ ~IsSome(child_proc) /\ ~IsSome(downloaded_release)
               /\ LiveProcs = {})
    /\ [][(ctx \in {"run", "call"} /\ pc \in {"download", "fetch"}
              /\ <<pc, ctx>>' # <<pc, ctx>> /\ ctx' # "signal")
            => IF pc' = "fetch" \/ ret' # "none"
               THEN downloaded_release' = downloaded_release
               ELSE /\ IsSome(downloaded_release')
                    /\ Unwrap(downloaded_release').release = Unwrap(pending)]_vars

\* C19 witness: in an upgrade, after terminate and uninstall returned Ok,
\* the fetch of the new release failed and run returned HttpError.
C19_Witness ==
    /\ ctx = "error" /\ pc = "terminate" /\ ret = "HttpError" /\ ~booting
    /\ Len(hist) >= 3
    /\ hist[Len(hist) - 2] = Ev("terminate", TRUE)
    /\ hist[Len(hist) - 1] = Ev("uninstall", TRUE)
    /\ hist[Len(hist)] = Ev("install", FALSE)
    /\ ~IsSome(child_proc) /\ ~IsSome(downloaded_release)

\* the new release's uri has no last path segment
C19_NoNameWitness ==
    /\ ctx = "error" /\ pc = "terminate" /\ ~booting
    /\ ret = "ClientNameDerivationError" /\ LastOp = Ev("install", FALSE)

\* the child recorded in child_proc has exited (a zombie, or already reaped
\* without the handle)
ChildExited == IsSome(child_proc) /\ procs[Unwrap(child_proc)].st # "running"

\* C20: run never observes the exit of its child.  A child's exit changes
\* neither child_proc nor the position of run; on a tick that reads a
\* release with the uri of the downloaded one while the child has exited,
\* run goes to sleep with child_proc still Some and spawns nothing; and a
\* process is spawned only by run_binary as the last step of the bootstrap
\* (after its install) or of an upgrade (after terminate, uninstall and
\* install, all Ok).
C20_ExitIsNotObserved ==
    /\ [][(\E p \in Pids : procs[p].st = "running" /\ procs'[p].st = "zombie")
            => UNCHANGED <<child_proc, downloaded_release, files, pc, ctx, ret, hist>>]_vars
    /\ [][(TickRead /\ ChildExited /\ ctx' = "run" /\ IsSome(pending')
              /\ IsSome(downloaded_release)
              /\ Unwrap(pending').uri = Unwrap(downloaded_release).release.uri)
            => /\ pc' = "sleep"
               /\ UNCHANGED <<child_proc, procs, files, downloaded_release, hist>>]_vars
    /\ [][(\E p \in Pids : procs[p].st # "running" /\ procs'[p].st = "running")
            => /\ ctx = "run" /\ pc = "run" /\ ~IsSome(child_proc)
               /\ LastOp = Ev("install", TRUE)
               /\ \/ booting /\ hist = <<Ev("install", TRUE)>>
                  \/ /\ ~booting /\ Len(hist) >= 3
                     /\ hist[Len(hist) - 2] = Ev("terminate", TRUE)
                     /\ hist[Len(hist) - 1] = Ev("uninstall", TRUE)]_vars
    /\ []((ctx = "run" /\ pc \in {"read", "sleep"} /\ ~booting) => IsSome(child_proc))

\* C20 witness: the child exited by itself and was reaped without the
\* handle; run has read the same uri (with another code hash) and sleeps,
\* child_proc still Some, no process alive.
C20_Witness ==
    /\ ctx = "run" /\ pc = "sleep" /\ ~booting /\ rpc = "value"
    /\ ChildExited /\ LiveProcs = {}
    /\ LastOp = Ev("spawn", TRUE)
    /\ IsSome(pending) /\ IsSome(downloaded_release)
    /\ Unwrap(pending).uri = Unwrap(downloaded_release).release.uri
    /\ Unwrap(pending) # Unwrap(downloaded_release).release

====
